---- MODULE Spec2Model ----
(***************************************************************************)
(* Configuration service of Exonum: the Propose, Vote and VoteAgainst      *)
(* transactions (exonum/src/runtime/configuration/transactions.rs) acting  *)
(* on the service schema (proposals, vote ledgers, ordinal index) and on   *)
(* the core schema's configuration registry.                               *)
(***************************************************************************)
EXTENDS Integers, Sequences, FiniteSets, TLC

(* ------------------------------ bounds --------------------------------- *)
\* Blocks committed in a run: height ranges over 0..MaxHeight.
MaxHeight == 1
\* A candidate's actual_from is drawn up to NextHeight + MaxAhead.
MaxAhead == 1
\* Proposals stored in a run.
MaxProposals == 2
\* Vote slots stored in a run, over all ledgers.
MaxSlots == 5

VARIABLES
    height,                      \* CoreSchema::height(): last committed block
    configs,                     \* CoreSchema: committed configurations, in commit order
    propose_data_by_config_hash, \* Schema: cfg_hash -> ProposeData
    votes_by_config_hash,        \* Schema: cfg_hash -> list of MaybeVote
    config_hash_by_ordinal,      \* Schema: list of cfg_hash in submission order
    result                       \* the transaction just executed and its ExecutionResult,
                                 \* until the executor takes the next one

vars == <<height, configs, propose_data_by_config_hash, votes_by_config_hash,
          config_hash_by_ordinal, result>>

(* ------------------------------ values --------------------------------- *)
\* Service keys of the nodes that sign transactions.
Keys == {1, 2, 3, 4}

\* Option<T>: <<>> is None, <<x>> is Some(x).
None == <<>>
Some(x) == <<x>>
IsSome(o) == o /= <<>>
Unwrap(o) == o[1]

\* Validator lists that candidate configurations draw from, and the list the
\* chain starts with.
ValidatorLists == {<<1>>, <<1, 2, 3, 4>>}
GenesisLists == {<<1>>}

\* Textual forms of a serialized configuration: two JSON layouts of the same
\* value, and a text that is not valid JSON.
Formats == {"compact", "pretty", "broken"}

Hash_zero == <<>>

\* CryptoHash::hash of a StoredConfiguration: a digest of its canonical
\* serialization, independent of the text it was parsed from.
CryptoHash(cfg) ==
    <<cfg.previous_cfg_hash, cfg.actual_from, cfg.validator_keys, cfg.majority_count>>

\* Hash of the signed transaction message (author, kind, payload).
tx_hash(kind, author, cfg_hash) == <<kind, author, cfg_hash>>

\* State::byzantine_majority_count
byzantine_majority_count(total) == (total * 2) \div 3 + 1

\* StoredConfiguration::try_deserialize: JSON parse plus consistency checks.
HasDuplicates(keys) == \E i, j \in 1..Len(keys) : i < j /\ keys[i] = keys[j]
try_deserialize(payload) ==
    IF payload.fmt = "broken" \/ HasDuplicates(payload.cfg.validator_keys)
    THEN None
    ELSE Some(payload.cfg)

\* StorageValue::from_bytes for StoredConfiguration (parse of a text known to be valid).
from_bytes(payload) == payload.cfg

\* MaybeVote: None, or Some(decision with the transaction hash).
MaybeVote_none == None
Yea(h) == Some([decision |-> "Yea", tx_hash |-> h])
Nay(h) == Some([decision |-> "Nay", tx_hash |-> h])
is_consent(vote) == IsSome(vote) /\ Unwrap(vote).decision = "Yea"

\* ProofListIndex::merkle_root: a digest of the length and of every slot.
merkle_root(votes) == <<"root", Len(votes), votes>>

\* Index (0-based) of the first element equal to key, as Iterator::position.
position(keys, key) ==
    IF \E i \in 1..Len(keys) : keys[i] = key
    THEN Some((CHOOSE i \in 1..Len(keys) :
                  keys[i] = key /\ \A j \in 1..(i - 1) : keys[j] /= key) - 1)
    ELSE None

(* ------------------------- configuration registry ---------------------- *)
NextHeight == height + 1

\* Index in configs of the configuration in force at the next height.
ActualIndex ==
    CHOOSE i \in 1..Len(configs) :
        /\ configs[i].actual_from <= NextHeight
        /\ \A j \in (i + 1)..Len(configs) : configs[j].actual_from > NextHeight

actual_configuration == configs[ActualIndex]

following_configuration ==
    IF ActualIndex < Len(configs) THEN Some(configs[ActualIndex + 1]) ELSE None

\* CoreSchema::configs().get(hash)
configs_get(hash) ==
    IF \E i \in 1..Len(configs) : CryptoHash(configs[i]) = hash
    THEN Some(configs[CHOOSE i \in 1..Len(configs) : CryptoHash(configs[i]) = hash])
    ELSE None

\* CoreSchema::commit_configuration: schedules cfg; a no-op when a
\* configuration is already scheduled.
commit_configuration(cfg) ==
    IF IsSome(following_configuration) THEN configs ELSE Append(configs, cfg)

(* ----------------------------- service schema -------------------------- *)
Proposed == DOMAIN propose_data_by_config_hash

\* Schema::propose
Schema_propose(cfg_hash) ==
    IF cfg_hash \in Proposed
    THEN Some(propose_data_by_config_hash[cfg_hash].tx_propose)
    ELSE None

\* Schema::votes_by_config_hash: the list is empty for an unknown hash.
Schema_votes(table, cfg_hash) ==
    IF cfg_hash \in DOMAIN table THEN table[cfg_hash] ELSE <<>>

\* ProofListIndex::get
list_get(list, index) == IF index + 1 \in 1..Len(list) THEN Some(list[index + 1]) ELSE None

ProposeData_new(tx_propose, votes_history_hash, num_validators) ==
    [tx_propose |-> tx_propose,
     votes_history_hash |-> votes_history_hash,
     num_validators |-> num_validators]

Ok == [kind |-> "Ok"]
IsOk(r) == r.kind = "Ok"

\* What the executor records for a transaction: the transaction (kind, author,
\* payload) and the kind of its ExecutionResult.
Propose_result(author, payload, kind) ==
    [tx |-> "Propose", author |-> author, payload |-> payload, kind |-> kind]
Vote_result(tx, author, cfg_hash, kind) ==
    [tx |-> tx, author |-> author, cfg_hash |-> cfg_hash, kind |-> kind]

\* No transaction is being executed.
NoResult == [tx |-> "None", kind |-> "Ok"]
Idle == result.tx = "None"

(* ------------------------------ helpers -------------------------------- *)
validator_index(key) == position(actual_configuration.validator_keys, key)

\* serde_json::from_value into ConfigurationServiceConfig, whose only field is
\* majority_count: Option<u16>. None when the section does not deserialize.
u16_MAX == 65535
from_value(section) ==
    IF IsSome(section) /\ Unwrap(section) \notin 0..u16_MAX
    THEN None
    ELSE Some([majority_count |-> section])

\* get_service_config: the section of the configuration service, by
\* .expect("Configuration is invalid") on the deserialized value.
get_service_config(config) ==
    LET value == from_value(config.majority_count)
    IN  IF IsSome(value)
        THEN [kind |-> "Ok", majority_count |-> Unwrap(value).majority_count]
        ELSE [kind |-> "Panic", message |-> "Configuration is invalid"]

\* The tally of a Vote panics in get_service_config of the active
\* configuration.
enough_votes_to_commit_panics ==
    get_service_config(actual_configuration).kind = "Panic"

YeaCount(votes) == Cardinality({i \in 1..Len(votes) : is_consent(votes[i])})

\* Variants of enough_votes_to_commit with a wrong comparison.
enough_votes_to_commit_Strict(table, cfg_hash) ==
    LET actual_config == actual_configuration
        votes_count == YeaCount(Schema_votes(table, cfg_hash))
        config == get_service_config(actual_config)
        majority_count ==
            IF IsSome(config.majority_count) THEN Unwrap(config.majority_count)
            ELSE byzantine_majority_count(Len(actual_config.validator_keys))
    IN votes_count > majority_count

enough_votes_to_commit_OffByOne(table, cfg_hash) ==
    LET actual_config == actual_configuration
        votes_count == YeaCount(Schema_votes(table, cfg_hash))
        config == get_service_config(actual_config)
        majority_count ==
            IF IsSome(config.majority_count) THEN Unwrap(config.majority_count)
            ELSE byzantine_majority_count(Len(actual_config.validator_keys))
    IN votes_count + 1 >= majority_count

\* Variant of enough_votes_to_commit that takes the majority policy from the
\* proposed configuration instead of the active one.
enough_votes_to_commit_CandidateConfig(table, cfg_hash) ==
    LET candidate == from_bytes(propose_data_by_config_hash[cfg_hash].tx_propose)
        votes_count == YeaCount(Schema_votes(table, cfg_hash))
        config == get_service_config(candidate)
        majority_count ==
            IF IsSome(config.majority_count) THEN Unwrap(config.majority_count)
            ELSE byzantine_majority_count(Len(candidate.validator_keys))
    IN votes_count >= majority_count

\* Variant of enough_votes_to_commit that counts every recorded decision,
\* whether in favour or against.
enough_votes_to_commit_AnyDecision(table, cfg_hash) ==
    LET actual_config == actual_configuration
        votes == Schema_votes(table, cfg_hash)
        votes_count == Cardinality({i \in 1..Len(votes) : IsSome(votes[i])})
        config == get_service_config(actual_config)
        majority_count ==
            IF IsSome(config.majority_count) THEN Unwrap(config.majority_count)
            ELSE byzantine_majority_count(Len(actual_config.validator_keys))
    IN votes_count >= majority_count

\* Variant of enough_votes_to_commit that always applies the default majority
\* of the active validators and never reads the override.
enough_votes_to_commit_IgnoresOverride(table, cfg_hash) ==
    LET actual_config == actual_configuration
        votes_count == YeaCount(Schema_votes(table, cfg_hash))
        majority_count == byzantine_majority_count(Len(actual_config.validator_keys))
    IN votes_count >= majority_count

enough_votes_to_commit(table, cfg_hash) ==
    LET actual_config == actual_configuration
        votes_count == YeaCount(Schema_votes(table, cfg_hash))
        config == get_service_config(actual_config)
        majority_count ==
            IF IsSome(config.majority_count) THEN Unwrap(config.majority_count)
            ELSE byzantine_majority_count(Len(actual_config.validator_keys))
    IN votes_count >= majority_count


(* ------------------------------- Propose ------------------------------- *)
\* Variant of check_config_candidate that omits the lower bound of the override.
check_config_candidate_NoLowerBound(candidate) ==
    LET actual_config == actual_configuration
        current_height == NextHeight
        config == get_service_config(candidate)
        validators_num == Len(candidate.validator_keys)
        min_votes_count == byzantine_majority_count(validators_num)
    IN  IF candidate.previous_cfg_hash /= CryptoHash(actual_config)
        THEN [kind |-> "InvalidConfigRef", actual |-> actual_config]
        ELSE IF candidate.actual_from <= current_height
        THEN [kind |-> "ActivationInPast", height |-> current_height]
        ELSE IF config.kind = "Panic"
        THEN config
        ELSE IF IsSome(config.majority_count) /\ Unwrap(config.majority_count) > validators_num
        THEN [kind |-> "InvalidMajorityCount", min |-> min_votes_count,
              max |-> validators_num, proposed |-> Unwrap(config.majority_count)]
        ELSE Ok

\* Variant of check_config_candidate that measures the override against the
\* validators of the active configuration instead of the candidate's own.
check_config_candidate_ActiveSize(candidate) ==
    LET actual_config == actual_configuration
        current_height == NextHeight
        config == get_service_config(candidate)
        validators_num == Len(actual_config.validator_keys)
        min_votes_count == byzantine_majority_count(validators_num)
    IN  IF candidate.previous_cfg_hash /= CryptoHash(actual_config)
        THEN [kind |-> "InvalidConfigRef", actual |-> actual_config]
        ELSE IF candidate.actual_from <= current_height
        THEN [kind |-> "ActivationInPast", height |-> current_height]
        ELSE IF config.kind = "Panic"
        THEN config
        ELSE IF /\ IsSome(config.majority_count)
                /\ (\/ Unwrap(config.majority_count) < min_votes_count
                    \/ Unwrap(config.majority_count) > validators_num)
        THEN [kind |-> "InvalidMajorityCount", min |-> min_votes_count,
              max |-> validators_num, proposed |-> Unwrap(config.majority_count)]
        ELSE Ok

\* Variant of check_config_candidate that lets a candidate activate at the
\* next block height.
check_config_candidate_AtNextHeight(candidate) ==
    LET actual_config == actual_configuration
        current_height == NextHeight
        config == get_service_config(candidate)
        validators_num == Len(candidate.validator_keys)
        min_votes_count == byzantine_majority_count(validators_num)
    IN  IF candidate.previous_cfg_hash /= CryptoHash(actual_config)
        THEN [kind |-> "InvalidConfigRef", actual |-> actual_config]
        ELSE IF candidate.actual_from < current_height
        THEN [kind |-> "ActivationInPast", height |-> current_height]
        ELSE IF config.kind = "Panic"
        THEN config
        ELSE IF /\ IsSome(config.majority_count)
                /\ (\/ Unwrap(config.majority_count) < min_votes_count
                    \/ Unwrap(config.majority_count) > validators_num)
        THEN [kind |-> "InvalidMajorityCount", min |-> min_votes_count,
              max |-> validators_num, proposed |-> Unwrap(config.majority_count)]
        ELSE Ok

\* Propose::check_config_candidate
check_config_candidate(candidate) ==
    LET actual_config == actual_configuration
        current_height == NextHeight
        config == get_service_config(candidate)
        validators_num == Len(candidate.validator_keys)
        min_votes_count == byzantine_majority_count(validators_num)
    IN  IF candidate.previous_cfg_hash /= CryptoHash(actual_config)
        THEN [kind |-> "InvalidConfigRef", actual |-> actual_config]
        ELSE IF candidate.actual_from <= current_height
        THEN [kind |-> "ActivationInPast", height |-> current_height]
        ELSE IF config.kind = "Panic"
        THEN config
        ELSE IF /\ IsSome(config.majority_count)
                /\ (\/ Unwrap(config.majority_count) < min_votes_count
                    \/ Unwrap(config.majority_count) > validators_num)
        THEN [kind |-> "InvalidMajorityCount", min |-> min_votes_count,
              max |-> validators_num, proposed |-> Unwrap(config.majority_count)]
        ELSE Ok

\* Variant of Propose::precheck without the check for a scheduled configuration.
Propose_precheck_NoScheduledCheck(author, payload) ==
    LET config_candidate == try_deserialize(payload)
        checked == check_config_candidate(Unwrap(config_candidate))
        cfg == from_bytes(payload)
        cfg_hash == CryptoHash(cfg)
        old_propose == Schema_propose(cfg_hash)
    IN  IF ~IsSome(validator_index(author))
        THEN [kind |-> "UnknownSender"]
        ELSE IF ~IsSome(config_candidate)
        THEN [kind |-> "InvalidConfig"]
        ELSE IF ~IsOk(checked)
        THEN checked
        ELSE IF IsSome(old_propose)
        THEN [kind |-> "AlreadyProposed", propose |-> Unwrap(old_propose)]
        ELSE [kind |-> "Ok", cfg |-> cfg, cfg_hash |-> cfg_hash]

\* Variant of Propose::precheck that parses the payload before it looks up the sender.
Propose_precheck_ParseFirst(author, payload) ==
    LET following_config == following_configuration
        config_candidate == try_deserialize(payload)
        checked == check_config_candidate(Unwrap(config_candidate))
        cfg == from_bytes(payload)
        cfg_hash == CryptoHash(cfg)
        old_propose == Schema_propose(cfg_hash)
    IN  IF IsSome(following_config)
        THEN [kind |-> "AlreadyScheduled", following |-> Unwrap(following_config)]
        ELSE IF ~IsSome(config_candidate)
        THEN [kind |-> "InvalidConfig"]
        ELSE IF ~IsSome(validator_index(author))
        THEN [kind |-> "UnknownSender"]
        ELSE IF ~IsOk(checked)
        THEN checked
        ELSE IF IsSome(old_propose)
        THEN [kind |-> "AlreadyProposed", propose |-> Unwrap(old_propose)]
        ELSE [kind |-> "Ok", cfg |-> cfg, cfg_hash |-> cfg_hash]

\* Variant of Propose::precheck without the lookup of an existing proposal.
Propose_precheck_NoDuplicateCheck(author, payload) ==
    LET following_config == following_configuration
        config_candidate == try_deserialize(payload)
        checked == check_config_candidate(Unwrap(config_candidate))
        cfg == from_bytes(payload)
        cfg_hash == CryptoHash(cfg)
    IN  IF IsSome(following_config)
        THEN [kind |-> "AlreadyScheduled", following |-> Unwrap(following_config)]
        ELSE IF ~IsSome(validator_index(author))
        THEN [kind |-> "UnknownSender"]
        ELSE IF ~IsSome(config_candidate)
        THEN [kind |-> "InvalidConfig"]
        ELSE IF ~IsOk(checked)
        THEN checked
        ELSE [kind |-> "Ok", cfg |-> cfg, cfg_hash |-> cfg_hash]

\* Variant of Propose::precheck that looks for an earlier proposal by the text
\* of the payload instead of the hash of the parsed configuration.
Propose_precheck_TextLookup(author, payload) ==
    LET following_config == following_configuration
        config_candidate == try_deserialize(payload)
        checked == check_config_candidate(Unwrap(config_candidate))
        cfg == from_bytes(payload)
        cfg_hash == CryptoHash(cfg)
        old_propose ==
            IF \E h \in Proposed : propose_data_by_config_hash[h].tx_propose = payload
            THEN Some(payload) ELSE None
    IN  IF IsSome(following_config)
        THEN [kind |-> "AlreadyScheduled", following |-> Unwrap(following_config)]
        ELSE IF ~IsSome(validator_index(author))
        THEN [kind |-> "UnknownSender"]
        ELSE IF ~IsSome(config_candidate)
        THEN [kind |-> "InvalidConfig"]
        ELSE IF ~IsOk(checked)
        THEN checked
        ELSE IF IsSome(old_propose)
        THEN [kind |-> "AlreadyProposed", propose |-> Unwrap(old_propose)]
        ELSE [kind |-> "Ok", cfg |-> cfg, cfg_hash |-> cfg_hash]

\* Propose::precheck
Propose_precheck(author, payload) ==
    LET following_config == following_configuration
        config_candidate == try_deserialize(payload)
        checked == check_config_candidate(Unwrap(config_candidate))
        cfg == from_bytes(payload)
        cfg_hash == CryptoHash(cfg)
        old_propose == Schema_propose(cfg_hash)
    IN  IF IsSome(following_config)
        THEN [kind |-> "AlreadyScheduled", following |-> Unwrap(following_config)]
        ELSE IF ~IsSome(validator_index(author))
        THEN [kind |-> "UnknownSender"]
        ELSE IF ~IsSome(config_candidate)
        THEN [kind |-> "InvalidConfig"]
        ELSE IF ~IsOk(checked)
        THEN checked
        ELSE IF IsSome(old_propose)
        THEN [kind |-> "AlreadyProposed", propose |-> Unwrap(old_propose)]
        ELSE [kind |-> "Ok", cfg |-> cfg, cfg_hash |-> cfg_hash]

\* Variant of Propose::save that sizes the ledger by the validators of the
\* proposed configuration instead of those of its predecessor.
Propose_save_CandidateSize(payload, cfg, cfg_hash) ==
    LET num_validators == Len(cfg.validator_keys)
        votes_table == Schema_votes(votes_by_config_hash, cfg_hash)
                           \o [i \in 1..num_validators |-> MaybeVote_none]
        propose_data == ProposeData_new(payload, merkle_root(votes_table), num_validators)
    IN  [votes |-> (cfg_hash :> votes_table) @@ votes_by_config_hash,
         proposes |-> (cfg_hash :> propose_data) @@ propose_data_by_config_hash,
         ordinals |-> Append(config_hash_by_ordinal, cfg_hash)]

\* Variant of Propose::save that puts the new hash at the front of the ordinal
\* index.
Propose_save_Prepend(payload, cfg, cfg_hash) ==
    LET prev_cfg == Unwrap(configs_get(cfg.previous_cfg_hash))
        num_validators == Len(prev_cfg.validator_keys)
        votes_table == Schema_votes(votes_by_config_hash, cfg_hash)
                           \o [i \in 1..num_validators |-> MaybeVote_none]
        propose_data == ProposeData_new(payload, merkle_root(votes_table), num_validators)
    IN  [votes |-> (cfg_hash :> votes_table) @@ votes_by_config_hash,
         proposes |-> (cfg_hash :> propose_data) @@ propose_data_by_config_hash,
         ordinals |-> <<cfg_hash>> \o config_hash_by_ordinal]

\* Propose::save: the three tables after the proposal is stored.
Propose_save(payload, cfg, cfg_hash) ==
    LET prev_cfg == Unwrap(configs_get(cfg.previous_cfg_hash))
        num_validators == Len(prev_cfg.validator_keys)
        votes_table == Schema_votes(votes_by_config_hash, cfg_hash)
                           \o [i \in 1..num_validators |-> MaybeVote_none]
        propose_data == ProposeData_new(payload, merkle_root(votes_table), num_validators)
    IN  [votes |-> (cfg_hash :> votes_table) @@ votes_by_config_hash,
         proposes |-> (cfg_hash :> propose_data) @@ propose_data_by_config_hash,
         ordinals |-> Append(config_hash_by_ordinal, cfg_hash)]

\* Variant of Propose::execute that appends to the ordinal index before the
\* precheck has accepted the proposal.
Propose_execute_SaveFirst(author, payload) ==
    LET pre == Propose_precheck(author, payload)
        saved == Propose_save(payload, pre.cfg, pre.cfg_hash)
    IN  IF ~IsOk(pre)
        THEN /\ result' = Propose_result(author, payload, pre.kind)
             /\ config_hash_by_ordinal' =
                    IF pre.kind = "AlreadyProposed"
                    THEN Append(config_hash_by_ordinal, CryptoHash(from_bytes(payload)))
                    ELSE config_hash_by_ordinal
             /\ UNCHANGED <<height, configs, propose_data_by_config_hash,
                            votes_by_config_hash>>
        ELSE /\ votes_by_config_hash' = saved.votes
             /\ propose_data_by_config_hash' = saved.proposes
             /\ config_hash_by_ordinal' = saved.ordinals
             /\ result' = Propose_result(author, payload, "Ok")
             /\ UNCHANGED <<height, configs>>

\* <Propose as Transaction>::execute
Propose_execute(author, payload) ==
    LET pre == Propose_precheck(author, payload)
        saved == Propose_save(payload, pre.cfg, pre.cfg_hash)
    IN  IF ~IsOk(pre)
        THEN /\ result' = Propose_result(author, payload, pre.kind)
             /\ UNCHANGED <<height, configs, propose_data_by_config_hash,
                            votes_by_config_hash, config_hash_by_ordinal>>
        ELSE /\ votes_by_config_hash' = saved.votes
             /\ propose_data_by_config_hash' = saved.proposes
             /\ config_hash_by_ordinal' = saved.ordinals
             /\ result' = Propose_result(author, payload, "Ok")
             /\ UNCHANGED <<height, configs>>

(* ------------------------- Vote and VoteAgainst ------------------------ *)
\* Variant of VotingContext::precheck without the check for a scheduled configuration.
VotingContext_precheck_NoScheduledCheck(author, cfg_hash) ==
    LET propose == Schema_propose(cfg_hash)
        validator_id == validator_index(author)
        vote == list_get(Schema_votes(votes_by_config_hash, cfg_hash), Unwrap(validator_id))
        parsed == try_deserialize(Unwrap(propose))
        checked == check_config_candidate(Unwrap(parsed))
    IN  IF ~IsSome(propose)
        THEN [kind |-> "UnknownConfigRef", cfg_hash |-> cfg_hash]
        ELSE IF ~IsSome(validator_id)
        THEN [kind |-> "UnknownSender"]
        ELSE IF ~IsSome(vote)
        THEN [kind |-> "Panic", message |-> "Can't get vote for precheck"]
        ELSE IF IsSome(Unwrap(vote))
        THEN [kind |-> "AlreadyVoted"]
        ELSE IF ~IsSome(parsed)
        THEN [kind |-> "Panic", message |-> "unwrap on None"]
        ELSE IF ~IsOk(checked)
        THEN checked
        ELSE [kind |-> "Ok", parsed |-> Unwrap(parsed)]

\* Variant of VotingContext::precheck that does not look at the sender's slot.
VotingContext_precheck_NoVotedCheck(author, cfg_hash) ==
    LET following_config == following_configuration
        propose == Schema_propose(cfg_hash)
        validator_id == validator_index(author)
        parsed == try_deserialize(Unwrap(propose))
        checked == check_config_candidate(Unwrap(parsed))
    IN  IF IsSome(following_config)
        THEN [kind |-> "AlreadyScheduled", following |-> Unwrap(following_config)]
        ELSE IF ~IsSome(propose)
        THEN [kind |-> "UnknownConfigRef", cfg_hash |-> cfg_hash]
        ELSE IF ~IsSome(validator_id)
        THEN [kind |-> "UnknownSender"]
        ELSE IF ~IsSome(parsed)
        THEN [kind |-> "Panic", message |-> "unwrap on None"]
        ELSE IF ~IsOk(checked)
        THEN checked
        ELSE [kind |-> "Ok", parsed |-> Unwrap(parsed)]

\* Variant of VotingContext::precheck that does not validate the stored
\* proposal again against the current state.
VotingContext_precheck_NoRevalidation(author, cfg_hash) ==
    LET following_config == following_configuration
        propose == Schema_propose(cfg_hash)
        validator_id == validator_index(author)
        vote == list_get(Schema_votes(votes_by_config_hash, cfg_hash), Unwrap(validator_id))
        parsed == try_deserialize(Unwrap(propose))
    IN  IF IsSome(following_config)
        THEN [kind |-> "AlreadyScheduled", following |-> Unwrap(following_config)]
        ELSE IF ~IsSome(propose)
        THEN [kind |-> "UnknownConfigRef", cfg_hash |-> cfg_hash]
        ELSE IF ~IsSome(validator_id)
        THEN [kind |-> "UnknownSender"]
        ELSE IF ~IsSome(vote)
        THEN [kind |-> "Panic", message |-> "Can't get vote for precheck"]
        ELSE IF IsSome(Unwrap(vote))
        THEN [kind |-> "AlreadyVoted"]
        ELSE IF ~IsSome(parsed)
        THEN [kind |-> "Panic", message |-> "unwrap on None"]
        ELSE [kind |-> "Ok", parsed |-> Unwrap(parsed)]

\* VotingContext::precheck
VotingContext_precheck(author, cfg_hash) ==
    LET following_config == following_configuration
        propose == Schema_propose(cfg_hash)
        validator_id == validator_index(author)
        vote == list_get(Schema_votes(votes_by_config_hash, cfg_hash), Unwrap(validator_id))
        parsed == try_deserialize(Unwrap(propose))
        checked == check_config_candidate(Unwrap(parsed))
    IN  IF IsSome(following_config)
        THEN [kind |-> "AlreadyScheduled", following |-> Unwrap(following_config)]
        ELSE IF ~IsSome(propose)
        THEN [kind |-> "UnknownConfigRef", cfg_hash |-> cfg_hash]
        ELSE IF ~IsSome(validator_id)
        THEN [kind |-> "UnknownSender"]
        ELSE IF ~IsSome(vote)
        THEN [kind |-> "Panic", message |-> "Can't get vote for precheck"]
        ELSE IF IsSome(Unwrap(vote))
        THEN [kind |-> "AlreadyVoted"]
        ELSE IF ~IsSome(parsed)
        THEN [kind |-> "Panic", message |-> "unwrap on None"]
        ELSE IF ~IsOk(checked)
        THEN checked
        ELSE [kind |-> "Ok", parsed |-> Unwrap(parsed)]

\* VotingContext::save: the ordinal it writes, from the proposal's predecessor.
VotingContext_save_validator_id(author, cfg_hash) ==
    LET propose_data == propose_data_by_config_hash[cfg_hash]
        prev_cfg_hash == from_bytes(propose_data.tx_propose).previous_cfg_hash
        prev_cfg == configs_get(prev_cfg_hash)
    IN  IF IsSome(prev_cfg) THEN position(Unwrap(prev_cfg).validator_keys, author) ELSE None

\* Variant of VotingContext::save that fills the first empty slot of the ledger
\* instead of the slot at the sender's ordinal.
VotingContext_save_FirstEmptySlot(decision, author, cfg_hash) ==
    LET propose_data == propose_data_by_config_hash[cfg_hash]
        ledger == votes_by_config_hash[cfg_hash]
        empty == {i \in 1..Len(ledger) : ledger[i] = None}
        slot == IF empty = {} THEN 1 ELSE CHOOSE i \in empty : \A j \in empty : i <= j
        votes == [ledger EXCEPT ![slot] = decision]
        new_data == ProposeData_new(propose_data.tx_propose, merkle_root(votes),
                                    propose_data.num_validators)
    IN  [votes |-> [votes_by_config_hash EXCEPT ![cfg_hash] = votes],
         proposes |-> [propose_data_by_config_hash EXCEPT ![cfg_hash] = new_data]]

\* Variant of VotingContext::save that appends the decision to the ledger
\* instead of setting the sender's slot.
VotingContext_save_Push(decision, author, cfg_hash) ==
    LET propose_data == propose_data_by_config_hash[cfg_hash]
        votes == Append(votes_by_config_hash[cfg_hash], decision)
        new_data == ProposeData_new(propose_data.tx_propose, merkle_root(votes),
                                    propose_data.num_validators)
    IN  [votes |-> [votes_by_config_hash EXCEPT ![cfg_hash] = votes],
         proposes |-> [propose_data_by_config_hash EXCEPT ![cfg_hash] = new_data]]

\* Variant of VotingContext::save that takes the merkle root before the slot
\* is set.
VotingContext_save_StaleRoot(decision, author, cfg_hash) ==
    LET propose_data == propose_data_by_config_hash[cfg_hash]
        validator_id == Unwrap(VotingContext_save_validator_id(author, cfg_hash))
        votes == [votes_by_config_hash[cfg_hash] EXCEPT ![validator_id + 1] = decision]
        new_data == ProposeData_new(propose_data.tx_propose,
                                    merkle_root(votes_by_config_hash[cfg_hash]),
                                    propose_data.num_validators)
    IN  [votes |-> [votes_by_config_hash EXCEPT ![cfg_hash] = votes],
         proposes |-> [propose_data_by_config_hash EXCEPT ![cfg_hash] = new_data]]

\* Variant of VotingContext::save whose vote table is not keyed by the
\* configuration hash: the decision lands in the sender's slot of every ledger
\* that has one.
VotingContext_save_AllLedgers(decision, author, cfg_hash) ==
    LET propose_data == propose_data_by_config_hash[cfg_hash]
        validator_id == Unwrap(VotingContext_save_validator_id(author, cfg_hash))
        votes == [votes_by_config_hash[cfg_hash] EXCEPT ![validator_id + 1] = decision]
        new_data == ProposeData_new(propose_data.tx_propose, merkle_root(votes),
                                    propose_data.num_validators)
    IN  [votes |-> [g \in DOMAIN votes_by_config_hash |->
                       IF g = cfg_hash THEN votes
                       ELSE IF validator_id + 1 <= Len(votes_by_config_hash[g])
                       THEN [votes_by_config_hash[g] EXCEPT ![validator_id + 1] = decision]
                       ELSE votes_by_config_hash[g]],
         proposes |-> [propose_data_by_config_hash EXCEPT ![cfg_hash] = new_data]]

\* VotingContext::save: the two tables after the decision is stored.
VotingContext_save(decision, author, cfg_hash) ==
    LET propose_data == propose_data_by_config_hash[cfg_hash]
        validator_id == Unwrap(VotingContext_save_validator_id(author, cfg_hash))
        votes == [votes_by_config_hash[cfg_hash] EXCEPT ![validator_id + 1] = decision]
        new_data == ProposeData_new(propose_data.tx_propose, merkle_root(votes),
                                    propose_data.num_validators)
    IN  [votes |-> [votes_by_config_hash EXCEPT ![cfg_hash] = votes],
         proposes |-> [propose_data_by_config_hash EXCEPT ![cfg_hash] = new_data]]

\* The save step of a vote panics (unwrap, or set out of bounds) before
\* anything is written.
VotingContext_save_panics(author, cfg_hash) ==
    LET validator_id == VotingContext_save_validator_id(author, cfg_hash)
    IN  \/ ~IsSome(validator_id)
        \/ Unwrap(validator_id) + 1 > Len(votes_by_config_hash[cfg_hash])

\* Variant of <Vote as Transaction>::execute whose decision is not written to
\* the fork: the tally sees it, later transactions do not.
Vote_execute_DropsDecision(author, cfg_hash) ==
    LET decision == Yea(tx_hash("Vote", author, cfg_hash))
        pre == VotingContext_precheck(author, cfg_hash)
        saved == VotingContext_save(decision, author, cfg_hash)
    IN  IF ~IsOk(pre)
        THEN /\ result' = Vote_result("Vote", author, cfg_hash, pre.kind)
             /\ UNCHANGED <<height, configs, propose_data_by_config_hash,
                            votes_by_config_hash, config_hash_by_ordinal>>
        ELSE IF VotingContext_save_panics(author, cfg_hash) \/ enough_votes_to_commit_panics
        THEN /\ result' = Vote_result("Vote", author, cfg_hash, "Panic")
             /\ UNCHANGED <<height, configs, propose_data_by_config_hash,
                            votes_by_config_hash, config_hash_by_ordinal>>
        ELSE /\ configs' = IF enough_votes_to_commit(saved.votes, cfg_hash)
                           THEN commit_configuration(pre.parsed)
                           ELSE configs
             /\ result' = Vote_result("Vote", author, cfg_hash, "Ok")
             /\ UNCHANGED <<height, config_hash_by_ordinal,
                            propose_data_by_config_hash, votes_by_config_hash>>

\* Variant of <Vote as Transaction>::execute that tallies the ledger as it was
\* before the decision is saved.
Vote_execute_TallyBeforeSave(author, cfg_hash) ==
    LET decision == Yea(tx_hash("Vote", author, cfg_hash))
        pre == VotingContext_precheck(author, cfg_hash)
        saved == VotingContext_save(decision, author, cfg_hash)
    IN  IF ~IsOk(pre)
        THEN /\ result' = Vote_result("Vote", author, cfg_hash, pre.kind)
             /\ UNCHANGED <<height, configs, propose_data_by_config_hash,
                            votes_by_config_hash, config_hash_by_ordinal>>
        ELSE IF VotingContext_save_panics(author, cfg_hash) \/ enough_votes_to_commit_panics
        THEN /\ result' = Vote_result("Vote", author, cfg_hash, "Panic")
             /\ UNCHANGED <<height, configs, propose_data_by_config_hash,
                            votes_by_config_hash, config_hash_by_ordinal>>
        ELSE /\ votes_by_config_hash' = saved.votes
             /\ propose_data_by_config_hash' = saved.proposes
             /\ configs' = IF enough_votes_to_commit(votes_by_config_hash, cfg_hash)
                           THEN commit_configuration(pre.parsed)
                           ELSE configs
             /\ result' = Vote_result("Vote", author, cfg_hash, "Ok")
             /\ UNCHANGED <<height, config_hash_by_ordinal>>

\* <Vote as Transaction>::execute. The decision is saved before the tally: a
\* panic of the tally leaves the saved decision in the fork.
Vote_execute(author, cfg_hash) ==
    LET decision == Yea(tx_hash("Vote", author, cfg_hash))
        pre == VotingContext_precheck(author, cfg_hash)
        saved == VotingContext_save(decision, author, cfg_hash)
    IN  IF ~IsOk(pre)
        THEN /\ result' = Vote_result("Vote", author, cfg_hash, pre.kind)
             /\ UNCHANGED <<height, configs, propose_data_by_config_hash,
                            votes_by_config_hash, config_hash_by_ordinal>>
        ELSE IF VotingContext_save_panics(author, cfg_hash)
        THEN /\ result' = Vote_result("Vote", author, cfg_hash, "Panic")
             /\ UNCHANGED <<height, configs, propose_data_by_config_hash,
                            votes_by_config_hash, config_hash_by_ordinal>>
        ELSE IF enough_votes_to_commit_panics
        THEN /\ votes_by_config_hash' = saved.votes
             /\ propose_data_by_config_hash' = saved.proposes
             /\ result' = Vote_result("Vote", author, cfg_hash, "Panic")
             /\ UNCHANGED <<height, configs, config_hash_by_ordinal>>
        ELSE /\ votes_by_config_hash' = saved.votes
             /\ propose_data_by_config_hash' = saved.proposes
             /\ configs' = IF enough_votes_to_commit(saved.votes, cfg_hash)
                           THEN commit_configuration(pre.parsed)
                           ELSE configs
             /\ result' = Vote_result("Vote", author, cfg_hash, "Ok")
             /\ UNCHANGED <<height, config_hash_by_ordinal>>

\* Variant of <VoteAgainst as Transaction>::execute that, like Vote, tallies
\* after saving, counting every recorded decision.
VoteAgainst_execute_Tallies(author, cfg_hash) ==
    LET decision == Nay(tx_hash("VoteAgainst", author, cfg_hash))
        pre == VotingContext_precheck(author, cfg_hash)
        saved == VotingContext_save(decision, author, cfg_hash)
        majority_count ==
            IF IsSome(get_service_config(actual_configuration).majority_count)
            THEN Unwrap(get_service_config(actual_configuration).majority_count)
            ELSE byzantine_majority_count(Len(actual_configuration.validator_keys))
    IN  IF ~IsOk(pre)
        THEN /\ result' = Vote_result("VoteAgainst", author, cfg_hash, pre.kind)
             /\ UNCHANGED <<height, configs, propose_data_by_config_hash,
                            votes_by_config_hash, config_hash_by_ordinal>>
        ELSE IF VotingContext_save_panics(author, cfg_hash)
        THEN /\ result' = Vote_result("VoteAgainst", author, cfg_hash, "Panic")
             /\ UNCHANGED <<height, configs, propose_data_by_config_hash,
                            votes_by_config_hash, config_hash_by_ordinal>>
        ELSE /\ votes_by_config_hash' = saved.votes
             /\ propose_data_by_config_hash' = saved.proposes
             /\ configs' = IF Cardinality({i \in 1..Len(saved.votes[cfg_hash]) :
                                             saved.votes[cfg_hash][i] /= None})
                                >= majority_count
                           THEN commit_configuration(pre.parsed)
                           ELSE configs
             /\ result' = Vote_result("VoteAgainst", author, cfg_hash, "Ok")
             /\ UNCHANGED <<height, config_hash_by_ordinal>>

\* <VoteAgainst as Transaction>::execute
VoteAgainst_execute(author, cfg_hash) ==
    LET decision == Nay(tx_hash("VoteAgainst", author, cfg_hash))
        pre == VotingContext_precheck(author, cfg_hash)
        saved == VotingContext_save(decision, author, cfg_hash)
    IN  IF ~IsOk(pre)
        THEN /\ result' = Vote_result("VoteAgainst", author, cfg_hash, pre.kind)
             /\ UNCHANGED <<height, configs, propose_data_by_config_hash,
                            votes_by_config_hash, config_hash_by_ordinal>>
        ELSE IF VotingContext_save_panics(author, cfg_hash)
        THEN /\ result' = Vote_result("VoteAgainst", author, cfg_hash, "Panic")
             /\ UNCHANGED <<height, configs, propose_data_by_config_hash,
                            votes_by_config_hash, config_hash_by_ordinal>>
        ELSE /\ votes_by_config_hash' = saved.votes
             /\ propose_data_by_config_hash' = saved.proposes
             /\ result' = Vote_result("VoteAgainst", author, cfg_hash, "Ok")
             /\ UNCHANGED <<height, configs, config_hash_by_ordinal>>

(* ------------------------------- blocks -------------------------------- *)
\* The scheduled configuration comes into force with the next block.
FollowingDue ==
    /\ IsSome(following_configuration)
    /\ Unwrap(following_configuration).actual_from <= NextHeight + 1

\* The executor records the outcome and turns to the next transaction.
NextTransaction ==
    /\ ~Idle
    /\ result' = NoResult
    /\ UNCHANGED <<height, configs, propose_data_by_config_hash, votes_by_config_hash,
                   config_hash_by_ordinal>>

\* A block is committed and the active configuration stays.
AdvanceHeight ==
    /\ Idle
    /\ height < MaxHeight
    /\ ~FollowingDue
    /\ height' = height + 1
    /\ UNCHANGED <<result, configs, propose_data_by_config_hash, votes_by_config_hash,
                   config_hash_by_ordinal>>

\* A block is committed and the scheduled configuration becomes the active one.
ActivateFollowing ==
    /\ Idle
    /\ height < MaxHeight
    /\ FollowingDue
    /\ height' = height + 1
    /\ UNCHANGED <<result, configs, propose_data_by_config_hash, votes_by_config_hash,
                   config_hash_by_ordinal>>

(* ------------------------------- inputs -------------------------------- *)
\* Overrides a candidate may carry: none, every count up to the number of keys,
\* and one value that does not fit the 16-bit field.
Majorities == {None} \cup {Some(m) : m \in 1..Cardinality(Keys)} \cup {Some(u16_MAX + 1)}
ActivationHeights == NextHeight..(NextHeight + MaxAhead)
PreviousHashes == {CryptoHash(actual_configuration), Hash_zero}

Candidates ==
    [validator_keys : ValidatorLists, actual_from : ActivationHeights,
     previous_cfg_hash : PreviousHashes, majority_count : Majorities]

\* Texts a Propose may carry: the compact serialization of every candidate, a
\* second layout of the candidates without a majority override, and one text
\* that does not parse.
Payloads ==
    [cfg : Candidates, fmt : {"compact"}]
        \cup [cfg : {c \in Candidates : c.majority_count = None}, fmt : {"pretty"}]
        \cup [cfg : {CHOOSE c \in Candidates : TRUE}, fmt : {"broken"}]

\* Hashes a vote may name: every proposed one, and one that was never proposed.
VoteHashes == Proposed \cup {Hash_zero}

TotalSlots(table) ==
    LET RECURSIVE Sum(_)
        Sum(S) == IF S = {} THEN 0
                  ELSE LET h == CHOOSE x \in S : TRUE
                       IN  Len(table[h]) + Sum(S \ {h})
    IN  Sum(DOMAIN table)

\* The run has room for the proposal this transaction would store.
HasRoom(author, payload) ==
    LET pre == Propose_precheck(author, payload)
    IN  IsOk(pre) =>
            /\ Len(config_hash_by_ordinal) < MaxProposals
            /\ TotalSlots(Propose_save(payload, pre.cfg, pre.cfg_hash).votes) <= MaxSlots

Genesis(keys) ==
    [validator_keys |-> keys, actual_from |-> 0,
     previous_cfg_hash |-> Hash_zero, majority_count |-> None]

Init ==
    /\ height = 0
    /\ \E keys \in GenesisLists : configs = <<Genesis(keys)>>
    /\ propose_data_by_config_hash = <<>>
    /\ votes_by_config_hash = <<>>
    /\ config_hash_by_ordinal = <<>>
    /\ result = NoResult

Next ==
    \/ Idle /\ \E author \in Keys, payload \in Payloads :
                   HasRoom(author, payload) /\ Propose_execute(author, payload)
    \/ Idle /\ \E author \in Keys, cfg_hash \in VoteHashes : Vote_execute(author, cfg_hash)
    \/ Idle /\ \E author \in Keys, cfg_hash \in VoteHashes :
                   VoteAgainst_execute(author, cfg_hash)
    \/ NextTransaction
    \/ AdvanceHeight
    \/ ActivateFollowing

Spec == Init /\ [][Next]_vars


(* ======================= properties of the service ===================== *)
Fork == <<height, configs, propose_data_by_config_hash, votes_by_config_hash,
          config_hash_by_ordinal>>
ServiceTables == <<propose_data_by_config_hash, votes_by_config_hash,
                   config_hash_by_ordinal>>

IsTx(r) == r.tx \in {"Propose", "Vote", "VoteAgainst"}
IsVoting(r) == r.tx \in {"Vote", "VoteAgainst"}

ActiveValidators ==
    {actual_configuration.validator_keys[i] :
        i \in 1..Len(actual_configuration.validator_keys)}

\* Configurations committed to the registry that are not yet in force.
ScheduledConfigs == {i \in 1..Len(configs) : configs[i].actual_from > NextHeight}

\* floor(2N/3) + 1
DefaultMajority(n) == (2 * n) \div 3 + 1

\* The number of affirmative votes the active configuration asks for.
ActiveThreshold ==
    IF actual_configuration.majority_count = None
    THEN DefaultMajority(Len(actual_configuration.validator_keys))
    ELSE actual_configuration.majority_count[1]

\* The configuration a stored proposal carries.
ProposedConfig(cfg_hash) == propose_data_by_config_hash[cfg_hash].tx_propose.cfg

NonEmptySlots(votes) == {i \in 1..Len(votes) : votes[i] /= None}

(* ---- C1 ---- *)
\* C1: in every reachable state at most one scheduled (following) configuration
\* exists, and the registry's scheduling operation is never invoked by a Vote
\* while a following configuration is already present.
C1_AtMostOneScheduled ==
    /\ [](Cardinality(ScheduledConfigs) <= 1)
    /\ [][(/\ result'.tx = "Vote"
           /\ result'.kind = "Ok"
           /\ enough_votes_to_commit(votes_by_config_hash', result'.cfg_hash))
          => ~IsSome(following_configuration)]_vars

\* A Vote has just scheduled a configuration.
C1_Witness ==
    /\ result.tx = "Vote"
    /\ result.kind = "Ok"
    /\ IsSome(following_configuration)

(* ---- C2 ---- *)
\* C2: a configuration becomes scheduled only in the step of a successful Vote;
\* that step schedules exactly when the affirmative slots of the referenced
\* proposal, counted after the vote is written, reach the majority threshold,
\* and it schedules the configuration parsed from that proposal; below the
\* threshold the registry is unchanged.
C2_ScheduledOnlyByMajorityVote ==
    [][/\ (configs' /= configs) => (result'.tx = "Vote" /\ result'.kind = "Ok")
       /\ (result'.tx = "Vote" /\ result'.kind = "Ok") =>
            LET h == result'.cfg_hash
            IN  IF YeaCount(votes_by_config_hash'[h]) >= ActiveThreshold
                THEN /\ ~IsSome(following_configuration)
                     /\ configs' = Append(configs, ProposedConfig(h))
                     /\ following_configuration' = Some(ProposedConfig(h))
                ELSE configs' = configs]_vars

\* A successful Vote that stayed below the threshold of an active
\* configuration with four validators.
C2_Witness ==
    /\ result.tx = "Vote"
    /\ result.kind = "Ok"
    /\ ~IsSome(following_configuration)
    /\ YeaCount(votes_by_config_hash[result.cfg_hash]) = 2
    /\ Len(actual_configuration.validator_keys) = 4

(* ---- C3 ---- *)
\* C3: whenever a configuration is scheduled, the ledger of its proposal holds
\* at least floor(2N/3)+1 and at most N affirmative slots, N being the ledger
\* length, along every chain of configurations that starts from a genesis
\* configuration without majority override.
C3_ByzantineSafeScheduling ==
    (configs[1].majority_count = None /\ IsSome(following_configuration)) =>
        LET h == CryptoHash(Unwrap(following_configuration))
            ledger == votes_by_config_hash[h]
        IN  /\ h \in Proposed
            /\ YeaCount(ledger) >= DefaultMajority(Len(ledger))
            /\ YeaCount(ledger) <= Len(ledger)

\* A configuration was scheduled under an active configuration that was itself
\* voted in and carries a majority override for four validators.
C3_Witness ==
    /\ IsSome(following_configuration)
    /\ Len(configs) = 3
    /\ actual_configuration.majority_count /= None
    /\ Len(actual_configuration.validator_keys) = 4

(* ---- C4 ---- *)
\* The end-to-end scenario: four active validators, default majority, a valid
\* proposal on which only affirmative votes have been cast, the last
\* transaction being a successful Vote on it.
C4_Scenario(h, votes_cast) ==
    /\ Len(actual_configuration.validator_keys) = 4
    /\ actual_configuration.majority_count = None
    /\ result.tx = "Vote"
    /\ result.kind = "Ok"
    /\ result.cfg_hash = h
    /\ Len(votes_by_config_hash[h]) = 4
    /\ Cardinality(NonEmptySlots(votes_by_config_hash[h])) = votes_cast
    /\ YeaCount(votes_by_config_hash[h]) = votes_cast

\* C4 as stated: after the first Vote that follows the Propose the tally is 2
\* and nothing is scheduled; after the second Vote the tally is 3 and the
\* proposed configuration is scheduled.
C4_Original ==
    \A h \in Proposed :
        /\ C4_Scenario(h, 1) => ~IsSome(following_configuration)
        /\ C4_Scenario(h, 2) => following_configuration = Some(ProposedConfig(h))

\* C4 amended: the proposer casts no vote by proposing, so the tally is 1 after
\* the first Vote and 2 after the second, with nothing scheduled; the third
\* successful Vote makes the tally 3 and schedules the proposed configuration;
\* every Propose submitted after that, by any key, fails with AlreadyScheduled.
C4_Amended ==
    /\ [](\A h \in Proposed :
            /\ C4_Scenario(h, 1) => ~IsSome(following_configuration)
            /\ C4_Scenario(h, 2) => ~IsSome(following_configuration)
            /\ C4_Scenario(h, 3) => following_configuration = Some(ProposedConfig(h)))
    /\ [][(/\ Len(actual_configuration.validator_keys) = 4
           /\ actual_configuration.majority_count = None
           /\ IsSome(following_configuration)
           /\ result'.tx = "Propose")
          => result'.kind = "AlreadyScheduled"]_vars

\* After the third Vote scheduled the configuration, a validator's Propose was
\* rejected with AlreadyScheduled.
C4_Witness ==
    /\ Len(actual_configuration.validator_keys) = 4
    /\ actual_configuration.majority_count = None
    /\ IsSome(following_configuration)
    /\ YeaCount(votes_by_config_hash[CryptoHash(Unwrap(following_configuration))]) = 3
    /\ result.tx = "Propose"
    /\ result.author \in ActiveValidators
    /\ result.kind = "AlreadyScheduled"

(* ---- C5 ---- *)
\* C5: a Propose, Vote or VoteAgainst that ends with an error leaves the whole
\* fork unchanged, and so does the hand-over to the next transaction of the
\* block, which therefore runs against the unchanged state.
C5_FailedTransactionChangesNothing ==
    [][((IsTx(result') /\ result'.kind /= "Ok") \/ (IsTx(result) /\ result.kind /= "Ok"))
          => UNCHANGED Fork]_vars

\* A transaction failed on a fork that already holds a proposal with a vote.
C5_Witness ==
    /\ IsTx(result)
    /\ result.kind \notin {"Ok", "Panic"}
    /\ \E h \in Proposed : NonEmptySlots(votes_by_config_hash[h]) /= {}

(* ---- C6 ---- *)
WellFormed(payload) ==
    /\ payload.fmt /= "broken"
    /\ \A i, j \in 1..Len(payload.cfg.validator_keys) :
           i /= j => payload.cfg.validator_keys[i] /= payload.cfg.validator_keys[j]

MajorityInRange(cfg) ==
    \/ cfg.majority_count = None
    \/ /\ DefaultMajority(Len(cfg.validator_keys)) <= cfg.majority_count[1]
       /\ cfg.majority_count[1] <= Len(cfg.validator_keys)

\* The outcome C6 gives for a Propose: the first failing precondition in the
\* order AlreadyScheduled, UnknownSender, InvalidConfig, InvalidConfigRef,
\* ActivationInPast, InvalidMajorityCount, AlreadyProposed.
C6_Expected(author, payload) ==
    CASE IsSome(following_configuration) -> "AlreadyScheduled"
      [] author \notin ActiveValidators -> "UnknownSender"
      [] ~WellFormed(payload) -> "InvalidConfig"
      [] payload.cfg.previous_cfg_hash /= CryptoHash(actual_configuration) -> "InvalidConfigRef"
      [] payload.cfg.actual_from <= NextHeight -> "ActivationInPast"
      [] ~MajorityInRange(payload.cfg) -> "InvalidMajorityCount"
      [] CryptoHash(payload.cfg) \in Proposed -> "AlreadyProposed"
      [] OTHER -> "Ok"

\* C6: every Propose reports the first failing precondition of that order, and
\* succeeds exactly when none fails.
C6_ProposeErrorOrder ==
    [][result'.tx = "Propose" =>
          result'.kind = C6_Expected(result'.author, result'.payload)]_vars

\* A Propose failed several preconditions at once (unknown sender, broken
\* payload) and reported the earliest.
C6_Witness ==
    /\ result.tx = "Propose"
    /\ result.kind = "UnknownSender"
    /\ ~WellFormed(result.payload)
    /\ Proposed /= {}

(* ---- C7 ---- *)
\* The sender's slot, at the sender's ordinal in the active validator set, is non-empty.
SenderSlotTaken(author, cfg_hash) ==
    LET id == position(actual_configuration.validator_keys, author)
        ledger == votes_by_config_hash[cfg_hash]
    IN  /\ id[1] + 1 <= Len(ledger)
        /\ ledger[id[1] + 1] /= None

\* The outcome C7 gives for a Vote or VoteAgainst.
C7_Expected(author, cfg_hash) ==
    CASE IsSome(following_configuration) -> "AlreadyScheduled"
      [] cfg_hash \notin Proposed -> "UnknownConfigRef"
      [] author \notin ActiveValidators -> "UnknownSender"
      [] SenderSlotTaken(author, cfg_hash) -> "AlreadyVoted"
      [] ProposedConfig(cfg_hash).previous_cfg_hash /= CryptoHash(actual_configuration)
            -> "InvalidConfigRef"
      [] ProposedConfig(cfg_hash).actual_from <= NextHeight -> "ActivationInPast"
      [] ~MajorityInRange(ProposedConfig(cfg_hash)) -> "InvalidMajorityCount"
      [] OTHER -> "Ok"

\* C7: Vote and VoteAgainst report the first failing precondition in the order
\* AlreadyScheduled, UnknownConfigRef, UnknownSender, AlreadyVoted,
\* InvalidConfigRef, ActivationInPast, InvalidMajorityCount, and both kinds give
\* the same outcome on the same state, sender and hash.
C7_VoteErrorOrder ==
    [][IsVoting(result') =>
          result'.kind = C7_Expected(result'.author, result'.cfg_hash)]_vars

(* ---- C8 ---- *)
\* C8: while a configuration is scheduled and not yet active, every Propose,
\* Vote and VoteAgainst fails with AlreadyScheduled, whatever its payload, hash
\* or signer, and no proposal record, vote ledger or ordinal entry changes.
C8_PausedWhileScheduled ==
    [][IsSome(following_configuration) =>
          /\ IsTx(result') => result'.kind = "AlreadyScheduled"
          /\ UNCHANGED ServiceTables]_vars

\* While a configuration is scheduled, a Propose with a well-formed payload
\* signed by an active validator was rejected with AlreadyScheduled.
C8_Witness ==
    /\ IsSome(following_configuration)
    /\ result.tx = "Propose"
    /\ result.kind = "AlreadyScheduled"
    /\ result.author \in ActiveValidators
    /\ WellFormed(result.payload)

(* ---- C9 ---- *)
\* A Propose carrying this very payload has succeeded.
PayloadStored(payload) ==
    \E h \in Proposed : propose_data_by_config_hash[h].tx_propose = payload

\* C9 as stated: once a Propose with payload P has succeeded, every later
\* Propose with the identical payload signed by a validator fails with
\* AlreadyProposed and stores nothing.
C9_Original ==
    [][(/\ result'.tx = "Propose"
        /\ result'.author \in ActiveValidators
        /\ PayloadStored(result'.payload))
       => (result'.kind = "AlreadyProposed" /\ UNCHANGED ServiceTables)]_vars

\* C9 amended: such a Propose always fails and stores nothing; its error is
\* AlreadyProposed exactly when no earlier check of the Propose order fails,
\* that is when no configuration is scheduled, the signer is an active
\* validator, the payload's predecessor is still the active configuration and
\* its activation height is still above the next height.
C9_Amended ==
    [][(result'.tx = "Propose" /\ PayloadStored(result'.payload)) =>
          /\ result'.kind /= "Ok"
          /\ UNCHANGED ServiceTables
          /\ (result'.kind = "AlreadyProposed") <=>
                (/\ ~IsSome(following_configuration)
                 /\ result'.author \in ActiveValidators
                 /\ result'.payload.cfg.previous_cfg_hash = CryptoHash(actual_configuration)
                 /\ result'.payload.cfg.actual_from > NextHeight)]_vars

\* A repeated Propose of a stored payload was rejected with AlreadyProposed.
C9_Witness ==
    /\ result.tx = "Propose"
    /\ result.kind = "AlreadyProposed"
    /\ PayloadStored(result.payload)

(* ---- C10 ---- *)
\* The validator has a decision recorded in the ledger of this hash.
HasVoted(author, cfg_hash) ==
    /\ cfg_hash \in Proposed
    /\ \E i \in NonEmptySlots(votes_by_config_hash[cfg_hash]) :
           votes_by_config_hash[cfg_hash][i][1].tx_hash[2] = author

\* C10 as stated: after a validator's successful Vote or VoteAgainst on a hash,
\* every later Vote or VoteAgainst by that validator on that hash fails with
\* AlreadyVoted and leaves the ledger unchanged.
C10_Original ==
    [][(IsVoting(result') /\ HasVoted(result'.author, result'.cfg_hash)) =>
          /\ result'.kind = "AlreadyVoted"
          /\ UNCHANGED votes_by_config_hash]_vars

\* C10 amended: such a transaction is always rejected and leaves the ledger
\* unchanged; the rejection is AlreadyVoted whenever no configuration is
\* scheduled and the active configuration is still the proposal's predecessor,
\* and AlreadyScheduled whenever a configuration is scheduled.
C10_Amended ==
    [][(IsVoting(result') /\ HasVoted(result'.author, result'.cfg_hash)) =>
          /\ result'.kind /= "Ok"
          /\ UNCHANGED votes_by_config_hash
          /\ IsSome(following_configuration) => result'.kind = "AlreadyScheduled"
          /\ (/\ ~IsSome(following_configuration)
              /\ ProposedConfig(result'.cfg_hash).previous_cfg_hash
                    = CryptoHash(actual_configuration))
             => result'.kind = "AlreadyVoted"]_vars

\* A second vote of the opposite polarity was rejected with AlreadyVoted.
C10_Witness ==
    /\ result.tx = "VoteAgainst"
    /\ result.kind = "AlreadyVoted"
    /\ \E i \in NonEmptySlots(votes_by_config_hash[result.cfg_hash]) :
           /\ votes_by_config_hash[result.cfg_hash][i][1].tx_hash[2] = result.author
           /\ votes_by_config_hash[result.cfg_hash][i][1].decision = "Yea"

(* ---- C11 ---- *)
\* The decision a voting transaction records: its polarity and its own hash.
RecordedDecision(r) ==
    IF r.tx = "Vote"
    THEN Yea(tx_hash("Vote", r.author, r.cfg_hash))
    ELSE Nay(tx_hash("VoteAgainst", r.author, r.cfg_hash))

\* C11: vote slots are write-once. A successful Vote or VoteAgainst changes
\* exactly one slot of the referenced ledger, the slot at the sender's ordinal
\* that the precheck found empty, to the recorded decision with the hash of the
\* transaction, and changes no other ledger; no step changes a non-empty slot.
C11_WriteOnceSlots ==
    [][/\ \A h \in Proposed :
             /\ h \in DOMAIN votes_by_config_hash'
             /\ Len(votes_by_config_hash'[h]) >= Len(votes_by_config_hash[h])
             /\ \A i \in NonEmptySlots(votes_by_config_hash[h]) :
                    votes_by_config_hash'[h][i] = votes_by_config_hash[h][i]
       /\ (IsVoting(result') /\ result'.kind = "Ok") =>
             LET h == result'.cfg_hash
                 id == position(actual_configuration.validator_keys, result'.author)
             IN  /\ IsSome(id)
                 /\ id[1] + 1 <= Len(votes_by_config_hash[h])
                 /\ votes_by_config_hash[h][id[1] + 1] = None
                 /\ votes_by_config_hash'[h] =
                        [votes_by_config_hash[h] EXCEPT ![id[1] + 1] = RecordedDecision(result')]
                 /\ \A g \in Proposed \ {h} :
                        votes_by_config_hash'[g] = votes_by_config_hash[g]]_vars

\* The third validator of four has just voted against a proposal on which the
\* first validator had voted in favour.
C11_Witness ==
    /\ result.tx = "VoteAgainst"
    /\ result.kind = "Ok"
    /\ position(actual_configuration.validator_keys, result.author) = Some(2)
    /\ Len(votes_by_config_hash[result.cfg_hash]) = 4
    /\ is_consent(votes_by_config_hash[result.cfg_hash][1])
    /\ votes_by_config_hash[result.cfg_hash][2] = None
    /\ votes_by_config_hash[result.cfg_hash][3] = RecordedDecision(result)

(* ---- C12 ---- *)
\* C12: immediately after a successful Propose the new ledger has as many slots
\* as the active configuration has validators, every slot is empty, the
\* record's validator count equals that length, and the registry is unchanged
\* with no configuration scheduled.
C12_FreshLedger ==
    [][(result'.tx = "Propose" /\ result'.kind = "Ok") =>
          LET h == CryptoHash(result'.payload.cfg)
              n == Len(actual_configuration.validator_keys)
          IN  /\ h \in DOMAIN votes_by_config_hash'
              /\ h \in DOMAIN propose_data_by_config_hash'
              /\ Len(votes_by_config_hash'[h]) = n
              /\ \A i \in 1..n : votes_by_config_hash'[h][i] = None
              /\ propose_data_by_config_hash'[h].num_validators = n
              /\ configs' = configs
              /\ ~IsSome(following_configuration')]_vars

\* A configuration with four validators has just been proposed under an active
\* configuration with one validator: the ledger has one slot.
C12_Witness ==
    /\ result.tx = "Propose"
    /\ result.kind = "Ok"
    /\ Len(result.payload.cfg.validator_keys) = 4
    /\ Len(actual_configuration.validator_keys) = 1
    /\ Len(votes_by_config_hash[CryptoHash(result.payload.cfg)]) = 1

(* ---- C13 ---- *)
\* C13: for every stored proposal the length of its vote ledger equals the
\* validator count recorded in its ProposeData, and no step (Propose, Vote,
\* VoteAgainst, block commit, activation of another validator set) changes
\* either value.
C13_LedgerLengthFixed ==
    /\ [](\A h \in Proposed :
            /\ h \in DOMAIN votes_by_config_hash
            /\ Len(votes_by_config_hash[h]) = propose_data_by_config_hash[h].num_validators)
    /\ [][\A h \in Proposed :
            /\ Len(votes_by_config_hash'[h]) = Len(votes_by_config_hash[h])
            /\ propose_data_by_config_hash'[h].num_validators
                  = propose_data_by_config_hash[h].num_validators]_vars

\* A proposal submitted under one validator keeps its one-slot ledger after a
\* configuration with four validators became active and a validator voted on
\* a later proposal.
C13_Witness ==
    /\ Len(actual_configuration.validator_keys) = 4
    /\ IsVoting(result)
    /\ result.kind = "Ok"
    /\ \E h \in Proposed :
          /\ h /= result.cfg_hash
          /\ Len(votes_by_config_hash[h]) = 1
          /\ propose_data_by_config_hash[h].num_validators = 1

(* ---- C14 ---- *)
\* The ordinal index lists every hash once.
NoDuplicates(list) == \A i, j \in 1..Len(list) : list[i] = list[j] => i = j

\* C14: a configuration hash maps to at most one proposal. A record is created
\* only by a successful Propose, for the hash of its configuration, which had
\* no record; a record is never deleted; the payload and the validator count
\* stored in it never change (votes rewrite only the merkle root).
C14_OneProposalPerHash ==
    /\ [](/\ NoDuplicates(config_hash_by_ordinal)
          /\ {config_hash_by_ordinal[i] : i \in 1..Len(config_hash_by_ordinal)} = Proposed)
    /\ [][/\ \A h \in Proposed :
                /\ h \in DOMAIN propose_data_by_config_hash'
                /\ propose_data_by_config_hash'[h].tx_propose
                      = propose_data_by_config_hash[h].tx_propose
                /\ propose_data_by_config_hash'[h].num_validators
                      = propose_data_by_config_hash[h].num_validators
          /\ (DOMAIN propose_data_by_config_hash' /= Proposed
                \/ (result'.tx = "Propose" /\ result'.kind = "Ok")) =>
                /\ result'.tx = "Propose"
                /\ result'.kind = "Ok"
                /\ CryptoHash(result'.payload.cfg) \notin Proposed
                /\ DOMAIN propose_data_by_config_hash'
                      = Proposed \cup {CryptoHash(result'.payload.cfg)}
                /\ propose_data_by_config_hash'[CryptoHash(result'.payload.cfg)].tx_propose
                      = result'.payload]_vars

\* A Propose of an already proposed configuration in another layout of the text
\* was rejected; the record holds the first payload and a vote has since
\* rewritten its merkle root.
C14_Witness ==
    /\ result.tx = "Propose"
    /\ result.kind = "AlreadyProposed"
    /\ CryptoHash(result.payload.cfg) \in Proposed
    /\ propose_data_by_config_hash[CryptoHash(result.payload.cfg)].tx_propose /= result.payload
    /\ NonEmptySlots(votes_by_config_hash[CryptoHash(result.payload.cfg)]) /= {}

(* ---- C15 ---- *)
\* C15: a VoteAgainst, successful or not, never changes the configuration
\* registry; a successful one records the dissent in the sender's slot and
\* stores the merkle root of the changed ledger in the proposal's record.
C15_VoteAgainstNeverSchedules ==
    [][result'.tx = "VoteAgainst" =>
          /\ configs' = configs
          /\ height' = height
          /\ following_configuration' = following_configuration
          /\ result'.kind = "Ok" =>
                LET h == result'.cfg_hash
                    id == position(actual_configuration.validator_keys, result'.author)
                IN  /\ votes_by_config_hash'[h][id[1] + 1]
                          = Nay(tx_hash("VoteAgainst", result'.author, h))
                    /\ propose_data_by_config_hash'[h].votes_history_hash
                          = merkle_root(votes_by_config_hash'[h])
                    /\ propose_data_by_config_hash'[h].votes_history_hash
                          /= propose_data_by_config_hash[h].votes_history_hash]_vars

\* Three of four validators have voted against a proposal, the fourth has not
\* voted, and nothing is scheduled.
C15_Witness ==
    /\ result.tx = "VoteAgainst"
    /\ result.kind = "Ok"
    /\ Len(votes_by_config_hash[result.cfg_hash]) = 4
    /\ Cardinality(NonEmptySlots(votes_by_config_hash[result.cfg_hash])) = 3
    /\ YeaCount(votes_by_config_hash[result.cfg_hash]) = 0
    /\ ~IsSome(following_configuration)

(* ---- C16 ---- *)
\* C16: when the active configuration, which governs the tally, carries no
\* majority override, a successful Vote schedules the proposal exactly when the
\* affirmative count reaches floor(2N/3)+1 for N active validators, and never
\* below it: at 3 for N = 4 and at 1 for N = 1.
C16_DefaultMajority ==
    [][(/\ result'.tx = "Vote"
        /\ result'.kind = "Ok"
        /\ actual_configuration.majority_count = None) =>
          LET h == result'.cfg_hash
              N == Len(actual_configuration.validator_keys)
              yeas == YeaCount(votes_by_config_hash'[h])
              scheduled == following_configuration' = Some(ProposedConfig(h))
          IN  /\ scheduled <=> yeas = (2 * N) \div 3 + 1
              /\ ~scheduled <=> yeas < (2 * N) \div 3 + 1
              /\ ~scheduled <=> configs' = configs
              /\ N = 4 => (scheduled <=> yeas = 3)
              /\ N = 1 => (scheduled <=> yeas = 1)]_vars

\* Under four validators without override, the third affirmative vote has just
\* scheduled a configuration that itself asks for four votes.
C16_Witness ==
    /\ result.tx = "Vote"
    /\ result.kind = "Ok"
    /\ Len(configs) = 3
    /\ configs[2].majority_count = None
    /\ Len(configs[2].validator_keys) = 4
    /\ configs[3] = ProposedConfig(result.cfg_hash)
    /\ configs[3].majority_count = Some(4)
    /\ YeaCount(votes_by_config_hash[result.cfg_hash]) = 3

(* ---- C17 ---- *)
\* The checks of a Propose that come before the majority range all pass.
ReachesMajorityCheck(author, payload) ==
    /\ ~IsSome(following_configuration)
    /\ author \in ActiveValidators
    /\ WellFormed(payload)
    /\ payload.cfg.previous_cfg_hash = CryptoHash(actual_configuration)
    /\ payload.cfg.actual_from > NextHeight

\* What a Propose with override M does when the range is taken over N
\* validators: accepted only inside floor(2N/3)+1 .. N, and outside it, when it
\* gets as far as the range check, InvalidMajorityCount with min, max, proposed.
MajorityRule(r, err, reaches, M, N) ==
    LET in_range == (2 * N) \div 3 + 1 <= M /\ M <= N
    IN  /\ r.kind = "Ok" => in_range
        /\ in_range => r.kind /= "InvalidMajorityCount"
        /\ (reaches /\ ~in_range) =>
              /\ r.kind = "InvalidMajorityCount"
              /\ err = [kind |-> "InvalidMajorityCount", min |-> (2 * N) \div 3 + 1,
                        max |-> N, proposed |-> M]

\* C17 as stated: the range is taken over the validators active at proposal time.
C17_Original ==
    [][(result'.tx = "Propose" /\ WellFormed(result'.payload)
            /\ IsSome(result'.payload.cfg.majority_count)) =>
          MajorityRule(result', Propose_precheck(result'.author, result'.payload),
                       ReachesMajorityCheck(result'.author, result'.payload),
                       result'.payload.cfg.majority_count[1],
                       Len(actual_configuration.validator_keys))]_vars

\* C17 amended: the range is taken over the validators of the candidate
\* configuration itself. A Propose with an override outside the range is never
\* accepted; it fails with InvalidMajorityCount (min, max, proposed) exactly
\* when no earlier check fails and the override fits the 16-bit field, and
\* panics in get_service_config when no earlier check fails and it does not.
C17_Amended ==
    [][(result'.tx = "Propose" /\ WellFormed(result'.payload)
            /\ IsSome(result'.payload.cfg.majority_count)) =>
          LET M == result'.payload.cfg.majority_count[1]
              K == Len(result'.payload.cfg.validator_keys)
              in_range == (2 * K) \div 3 + 1 <= M /\ M <= K
              fits == M \in 0..u16_MAX
              reaches == ReachesMajorityCheck(result'.author, result'.payload)
          IN  /\ result'.kind = "Ok" => in_range
              /\ (result'.kind = "InvalidMajorityCount") <=>
                    (reaches /\ ~in_range /\ fits)
              /\ (result'.kind = "InvalidMajorityCount") =>
                    Propose_precheck(result'.author, result'.payload)
                       = [kind |-> "InvalidMajorityCount", min |-> (2 * K) \div 3 + 1,
                          max |-> K, proposed |-> M]
              /\ (reaches /\ ~fits) => result'.kind = "Panic"]_vars

\* Under one active validator, a candidate with four validators and an
\* override of 2 was rejected with min 3, max 4, proposed 2.
C17_Witness ==
    /\ result.tx = "Propose"
    /\ result.kind = "InvalidMajorityCount"
    /\ Len(actual_configuration.validator_keys) = 1
    /\ Len(result.payload.cfg.validator_keys) = 4
    /\ result.payload.cfg.majority_count = Some(2)
    /\ Propose_precheck(result.author, result.payload)
          = [kind |-> "InvalidMajorityCount", min |-> 3, max |-> 4, proposed |-> 2]

(* ---- C18 ---- *)
\* The proposal's declared predecessor is no longer the active configuration.
Superseded(cfg_hash) ==
    /\ cfg_hash \in Proposed
    /\ ProposedConfig(cfg_hash).previous_cfg_hash /= CryptoHash(actual_configuration)

\* The sender has a slot in the ledger of the proposal and it is empty.
SenderSlotEmpty(author, cfg_hash) ==
    LET id == position(actual_configuration.validator_keys, author)
        ledger == votes_by_config_hash[cfg_hash]
    IN  /\ IsSome(id)
        /\ id[1] + 1 <= Len(ledger)
        /\ ledger[id[1] + 1] = None

\* C18 as stated: once the active configuration is no longer the predecessor
\* of a stored proposal, every Vote or VoteAgainst on it fails with
\* InvalidConfigRef and the record stays as it is.
C18_Original ==
    [][(IsVoting(result') /\ Superseded(result'.cfg_hash)) =>
          /\ result'.kind = "InvalidConfigRef"
          /\ propose_data_by_config_hash' = propose_data_by_config_hash]_vars

\* C18 amended: every such Vote or VoteAgainst fails and leaves the record and
\* the ledger as they are; it fails with InvalidConfigRef exactly when no
\* configuration is scheduled and the sender is an active validator whose slot
\* in the ledger exists and is empty, the earlier checks of the shared order
\* coming first.
C18_Amended ==
    [][(IsVoting(result') /\ Superseded(result'.cfg_hash)) =>
          /\ result'.kind /= "Ok"
          /\ propose_data_by_config_hash' = propose_data_by_config_hash
          /\ votes_by_config_hash' = votes_by_config_hash
          /\ configs' = configs
          /\ (result'.kind = "InvalidConfigRef") <=>
                (/\ ~IsSome(following_configuration)
                 /\ SenderSlotEmpty(result'.author, result'.cfg_hash))]_vars

\* A validator that had not voted tried to vote on a proposal whose
\* predecessor had been replaced, and was rejected with InvalidConfigRef.
C18_Witness ==
    /\ IsVoting(result)
    /\ result.kind = "InvalidConfigRef"
    /\ Len(configs) >= 2
    /\ Superseded(result.cfg_hash)
    /\ SenderSlotEmpty(result.author, result.cfg_hash)

(* ---- C19 ---- *)
\* The error values of the service.
ServiceErrors ==
    {"AlreadyScheduled", "UnknownSender", "InvalidConfig", "InvalidConfigRef",
     "ActivationInPast", "InvalidMajorityCount", "AlreadyProposed",
     "UnknownConfigRef", "AlreadyVoted"}

\* The sender is an active validator whose ordinal is not below the length of
\* the proposal's ledger: it joined the validators after the proposal was made.
AddedAfterProposal(author, cfg_hash) ==
    LET id == position(actual_configuration.validator_keys, author)
    IN  /\ cfg_hash \in Proposed
        /\ IsSome(id)
        /\ id[1] >= Len(votes_by_config_hash[cfg_hash])

\* C19: a Vote or VoteAgainst signed by a validator added after the proposal was
\* submitted is rejected with a service error value and leaves the ledger
\* unchanged, and the slot lookup of the precheck never fails on a missing
\* slot in any reachable state.
C19_AddedValidatorRejected ==
    /\ [][(IsVoting(result') /\ AddedAfterProposal(result'.author, result'.cfg_hash)) =>
            /\ result'.kind \in ServiceErrors
            /\ votes_by_config_hash' = votes_by_config_hash]_vars
    /\ [](result.kind /= "Panic")

(* ---- C20 ---- *)
\* No step schedules a configuration that activates at or before the next
\* block height.
NeverScheduledInPast ==
    (configs' /= configs) =>
        /\ Len(configs') = Len(configs) + 1
        /\ configs'[Len(configs')].actual_from > NextHeight

\* The stored proposal's activation height has been reached by the chain.
Stale(cfg_hash) ==
    /\ cfg_hash \in Proposed
    /\ ProposedConfig(cfg_hash).actual_from <= NextHeight

\* C20 as stated: no configuration is scheduled with an activation height at
\* or below the next block height; a validator's Propose of such a candidate
\* fails with ActivationInPast; a Vote on an accepted proposal whose activation
\* height has been reached fails with ActivationInPast without scheduling.
C20_Original ==
    [][/\ NeverScheduledInPast
       /\ (/\ result'.tx = "Propose"
           /\ result'.author \in ActiveValidators
           /\ WellFormed(result'.payload)
           /\ result'.payload.cfg.actual_from <= NextHeight)
          => result'.kind = "ActivationInPast"
       /\ (result'.tx = "Vote" /\ Stale(result'.cfg_hash))
          => (result'.kind = "ActivationInPast" /\ configs' = configs)]_vars

\* C20 amended: no configuration is scheduled with an activation height at or
\* below the next block height; a Propose of such a candidate never succeeds,
\* and fails with ActivationInPast exactly when no earlier check of the Propose
\* order fails; a Vote on an accepted proposal whose activation height has
\* been reached never succeeds and never schedules, and fails with
\* ActivationInPast exactly when no earlier check of the shared order fails.
C20_Amended ==
    [][/\ NeverScheduledInPast
       /\ (/\ result'.tx = "Propose"
           /\ WellFormed(result'.payload)
           /\ result'.payload.cfg.actual_from <= NextHeight)
          => /\ result'.kind /= "Ok"
             /\ (result'.kind = "ActivationInPast") <=>
                   (/\ ~IsSome(following_configuration)
                    /\ result'.author \in ActiveValidators
                    /\ result'.payload.cfg.previous_cfg_hash
                          = CryptoHash(actual_configuration))
       /\ (result'.tx = "Vote" /\ Stale(result'.cfg_hash))
          => /\ result'.kind /= "Ok"
             /\ configs' = configs
             /\ (result'.kind = "ActivationInPast") <=>
                   (/\ ~IsSome(following_configuration)
                    /\ SenderSlotEmpty(result'.author, result'.cfg_hash)
                    /\ ~Superseded(result'.cfg_hash))]_vars

\* The chain reached the activation height of an accepted proposal before it
\* gathered its votes, and a validator's Vote on it failed with ActivationInPast.
C20_Witness ==
    /\ result.tx = "Vote"
    /\ result.kind = "ActivationInPast"
    /\ Stale(result.cfg_hash)
    /\ height > 0
    /\ ~IsSome(following_configuration)

(* ---- C22 ---- *)
\* C22: for every stored proposal the merkle root in its ProposeData is the
\* merkle root of the current contents of its vote ledger: taken from the
\* all-empty ledger at Propose and rewritten in the step of every successful
\* Vote or VoteAgainst.
C22_RootMatchesLedger ==
    /\ [](\A h \in Proposed :
            propose_data_by_config_hash[h].votes_history_hash
               = merkle_root(votes_by_config_hash[h]))
    /\ [][/\ (result'.tx = "Propose" /\ result'.kind = "Ok") =>
                LET h == CryptoHash(result'.payload.cfg)
                IN  propose_data_by_config_hash'[h].votes_history_hash
                       = merkle_root([i \in 1..Len(actual_configuration.validator_keys)
                                         |-> None])
          /\ (IsVoting(result') /\ result'.kind = "Ok") =>
                LET h == result'.cfg_hash
                IN  /\ propose_data_by_config_hash'[h].votes_history_hash
                          = merkle_root(votes_by_config_hash'[h])
                    /\ propose_data_by_config_hash'[h].votes_history_hash
                          /= propose_data_by_config_hash[h].votes_history_hash]_vars

\* A proposal holds a vote in favour and a vote against, and its record
\* carries the root of that ledger.
C22_Witness ==
    \E h \in Proposed :
        /\ YeaCount(votes_by_config_hash[h]) >= 1
        /\ Cardinality(NonEmptySlots(votes_by_config_hash[h])) >= 2
        /\ Cardinality(NonEmptySlots(votes_by_config_hash[h]))
              > YeaCount(votes_by_config_hash[h])
        /\ propose_data_by_config_hash[h].votes_history_hash
              = merkle_root(votes_by_config_hash[h])

(* ---- C23 ---- *)
\* C23: the ordinal index is append-only and in submission order: a successful
\* Propose appends exactly its configuration hash at the end, no other step
\* changes the index, existing entries keep their place, no hash occurs twice
\* and the index is as long as the number of stored proposals.
C23_OrdinalIndexAppendOnly ==
    /\ [](/\ NoDuplicates(config_hash_by_ordinal)
          /\ Len(config_hash_by_ordinal) = Cardinality(Proposed))
    /\ [][/\ \A i \in 1..Len(config_hash_by_ordinal) :
                /\ i <= Len(config_hash_by_ordinal')
                /\ config_hash_by_ordinal'[i] = config_hash_by_ordinal[i]
          /\ IF result'.tx = "Propose" /\ result'.kind = "Ok"
             THEN config_hash_by_ordinal'
                     = Append(config_hash_by_ordinal, CryptoHash(result'.payload.cfg))
             ELSE config_hash_by_ordinal' = config_hash_by_ordinal]_vars

\* Two proposals are stored and the second one has just been appended behind
\* the first.
C23_Witness ==
    /\ result.tx = "Propose"
    /\ result.kind = "Ok"
    /\ Len(config_hash_by_ordinal) = 2
    /\ config_hash_by_ordinal[2] = CryptoHash(result.payload.cfg)
    /\ config_hash_by_ordinal[1] /= config_hash_by_ordinal[2]

(* ---- C24 ---- *)
\* The ledger of a proposal in the given table holds a decision signed by the
\* validator.
HasVotedIn(table, author, cfg_hash) ==
    /\ cfg_hash \in DOMAIN table
    /\ \E i \in NonEmptySlots(table[cfg_hash]) :
           table[cfg_hash][i][1].tx_hash[2] = author

\* C24: read-your-writes within a block. The transactions executed between two
\* height steps form one block. Every successful transaction leaves its
\* mutation in the fork (the stored proposal, the recorded decision, the
\* scheduled configuration), and the precheck of every later transaction reads
\* it: a Vote on a stored proposal is never answered UnknownConfigRef, a
\* second vote by a validator on the same proposal is rejected and leaves the
\* ledger alone, and while the configuration scheduled by a Vote is pending
\* every Propose, Vote and VoteAgainst fails with AlreadyScheduled.
C24_ReadYourWrites ==
    [][/\ (result'.tx = "Propose" /\ result'.kind = "Ok") =>
              /\ CryptoHash(result'.payload.cfg) \in DOMAIN propose_data_by_config_hash'
              /\ CryptoHash(result'.payload.cfg) \in DOMAIN votes_by_config_hash'
       /\ (IsVoting(result') /\ result'.kind = "Ok") =>
              HasVotedIn(votes_by_config_hash', result'.author, result'.cfg_hash)
       /\ (result'.tx = "Vote" /\ result'.kind = "Ok"
             /\ YeaCount(votes_by_config_hash'[result'.cfg_hash]) >= ActiveThreshold) =>
              /\ configs' = Append(configs, ProposedConfig(result'.cfg_hash))
              /\ configs'[Len(configs')].actual_from > NextHeight
       /\ (IsVoting(result') /\ result'.cfg_hash \in Proposed) =>
              result'.kind /= "UnknownConfigRef"
       /\ (IsVoting(result')
             /\ HasVotedIn(votes_by_config_hash, result'.author, result'.cfg_hash)) =>
              /\ result'.kind /= "Ok"
              /\ votes_by_config_hash' = votes_by_config_hash
       /\ (IsTx(result') /\ IsSome(following_configuration)) =>
              /\ result'.kind = "AlreadyScheduled"
              /\ Fork' = Fork]_vars

\* Still in the first block: a validator proposed, voted the proposal into the
\* schedule, and the same validator's second Vote on it has just failed with
\* AlreadyScheduled.
C24_Witness ==
    /\ height = 0
    /\ result.tx = "Vote"
    /\ result.kind = "AlreadyScheduled"
    /\ HasVotedIn(votes_by_config_hash, result.author, result.cfg_hash)
    /\ IsSome(following_configuration)
    /\ Unwrap(following_configuration) = ProposedConfig(result.cfg_hash)
    /\ propose_data_by_config_hash[result.cfg_hash].tx_propose.cfg.validator_keys
          = <<1, 2, 3, 4>>

(* ---- C25 ---- *)
\* The configuration of a stored proposal has been committed to the registry.
WasScheduled(cfg_hash) ==
    /\ cfg_hash \in Proposed
    /\ \E i \in 1..Len(configs) : configs[i] = ProposedConfig(cfg_hash)

\* C25: Scheduled and Stale are absorbing. Once the configuration of a
\* proposal has been scheduled, or the active configuration is no longer the
\* predecessor the proposal names, the proposal stays in that condition, no
\* Vote or VoteAgainst on it succeeds, its record and its ledger never change,
\* no step schedules it, and a Propose of the same configuration fails.
C25_ScheduledAndStaleAbsorbing ==
    [][\A h \in Proposed :
          (WasScheduled(h) \/ Superseded(h)) =>
              /\ h \in DOMAIN propose_data_by_config_hash'
              /\ propose_data_by_config_hash'[h] = propose_data_by_config_hash[h]
              /\ votes_by_config_hash'[h] = votes_by_config_hash[h]
              /\ (WasScheduled(h) \/ Superseded(h))'
              /\ (configs' /= configs) => configs'[Len(configs')] /= ProposedConfig(h)
              /\ (IsVoting(result') /\ result'.cfg_hash = h) => result'.kind /= "Ok"
              /\ (result'.tx = "Propose" /\ CryptoHash(result'.payload.cfg) = h) =>
                     result'.kind /= "Ok"]_vars

\* One proposal was scheduled and is now the active configuration; a vote on
\* another proposal, which still names the old configuration as predecessor,
\* has just failed.
C25_Witness ==
    /\ IsVoting(result)
    /\ result.kind \in ServiceErrors
    /\ Superseded(result.cfg_hash)
    /\ ~WasScheduled(result.cfg_hash)
    /\ \E g \in Proposed :
          /\ WasScheduled(g)
          /\ ProposedConfig(g) = actual_configuration

(* ---- C26 ---- *)
NayCount(votes) ==
    Cardinality({i \in NonEmptySlots(votes) : votes[i][1].decision = "Nay"})

\* The number of affirmative votes a configuration asks of proposals that
\* name it as predecessor.
ThresholdOf(cfg) ==
    IF cfg.majority_count = None
    THEN DefaultMajority(Len(cfg.validator_keys))
    ELSE cfg.majority_count[1]

\* The configuration a stored proposal names as its predecessor.
PredecessorOf(cfg_hash) ==
    Unwrap(configs_get(ProposedConfig(cfg_hash).previous_cfg_hash))

\* So many slots are negative that the empty ones cannot make up the threshold.
Outvoted(cfg_hash) ==
    /\ cfg_hash \in Proposed
    /\ NayCount(votes_by_config_hash[cfg_hash])
          > Len(votes_by_config_hash[cfg_hash]) - ThresholdOf(PredecessorOf(cfg_hash))

\* C26: there is no rejection outcome. A proposal with more negative slots
\* than N minus the threshold stays stored and stays outvoted, a validator
\* with an empty slot is still accepted on it exactly as on any other open
\* proposal (no configuration scheduled, predecessor still active, activation
\* height still ahead), and no step schedules it.
C26_NoRejectionOutcome ==
    [][\A h \in Proposed :
          Outvoted(h) =>
              /\ h \in DOMAIN propose_data_by_config_hash'
              /\ propose_data_by_config_hash'[h].tx_propose
                    = propose_data_by_config_hash[h].tx_propose
              /\ Outvoted(h)'
              /\ (configs' /= configs) => configs'[Len(configs')] /= ProposedConfig(h)
              /\ (IsVoting(result') /\ result'.cfg_hash = h) =>
                    /\ (result'.kind = "Ok") <=>
                          (/\ ~IsSome(following_configuration)
                           /\ SenderSlotEmpty(result'.author, h)
                           /\ ~Superseded(h)
                           /\ ~Stale(h))
                    /\ (result'.kind = "Ok") =>
                          Cardinality(NonEmptySlots(votes_by_config_hash'[h]))
                             = Cardinality(NonEmptySlots(votes_by_config_hash[h])) + 1]_vars

\* A proposal that two of four validators had voted against has just taken a
\* vote in favour from a third and is not scheduled.
C26_Witness ==
    /\ result.tx = "Vote"
    /\ result.kind = "Ok"
    /\ Outvoted(result.cfg_hash)
    /\ NayCount(votes_by_config_hash[result.cfg_hash]) = 2
    /\ YeaCount(votes_by_config_hash[result.cfg_hash]) = 1
    /\ ~WasScheduled(result.cfg_hash)
    /\ ~IsSome(following_configuration)

(* ---- C27 ---- *)
\* C27: the threshold a proposal's affirmative tally is compared with is that
\* of the active configuration: its majority override when it has one,
\* otherwise floor(2N/3)+1 for the active validator count N. The override of
\* the candidate is only held to the range floor(2K/3)+1 .. K of the
\* candidate's own validator count K when the proposal is accepted, and the
\* number of votes the candidate needs does not depend on it.
C27_ThresholdFromActiveConfiguration ==
    [][/\ (result'.tx = "Vote" /\ result'.kind = "Ok") =>
             LET h == result'.cfg_hash
                 N == Len(actual_configuration.validator_keys)
                 threshold == IF IsSome(actual_configuration.majority_count)
                              THEN Unwrap(actual_configuration.majority_count)
                              ELSE (2 * N) \div 3 + 1
                 yeas == YeaCount(votes_by_config_hash'[h])
             IN  /\ (configs' = Append(configs, ProposedConfig(h))) <=> yeas >= threshold
                 /\ (configs' = configs) <=> yeas < threshold
       /\ (result'.tx = "Propose" /\ result'.kind = "Ok"
             /\ IsSome(result'.payload.cfg.majority_count)) =>
             LET K == Len(result'.payload.cfg.validator_keys)
                 M == Unwrap(result'.payload.cfg.majority_count)
             IN  (2 * K) \div 3 + 1 <= M /\ M <= K]_vars

\* The active configuration asks for all four votes; a candidate whose own
\* override is three has three votes in favour and is not scheduled.
C27_Witness ==
    /\ result.tx = "Vote"
    /\ result.kind = "Ok"
    /\ actual_configuration.majority_count = Some(4)
    /\ ProposedConfig(result.cfg_hash).majority_count = Some(3)
    /\ Len(ProposedConfig(result.cfg_hash).validator_keys) = 4
    /\ YeaCount(votes_by_config_hash[result.cfg_hash]) = 3
    /\ ~IsSome(following_configuration)
    /\ ~WasScheduled(result.cfg_hash)

(* ---- C28 ---- *)
\* C28: the number of affirmative slots of a stored proposal never exceeds the
\* threshold in force for it, which is that of the configuration it names as
\* predecessor; a proposal is scheduled by exactly the Vote that brings its
\* affirmative count to the threshold, and no affirmative vote is recorded on
\* it afterwards.
C28_TallyNeverExceedsThreshold ==
    /\ [](\A h \in Proposed :
            YeaCount(votes_by_config_hash[h]) <= ThresholdOf(PredecessorOf(h)))
    /\ [][/\ \A h \in Proposed :
                LET scheduled_now == /\ configs' /= configs
                                     /\ configs'[Len(configs')] = ProposedConfig(h)
                    brought_to_threshold ==
                        /\ result'.tx = "Vote"
                        /\ result'.kind = "Ok"
                        /\ result'.cfg_hash = h
                        /\ YeaCount(votes_by_config_hash[h])
                              = ThresholdOf(PredecessorOf(h)) - 1
                        /\ YeaCount(votes_by_config_hash'[h])
                              = ThresholdOf(PredecessorOf(h))
                IN  /\ scheduled_now <=> brought_to_threshold
                    /\ WasScheduled(h) =>
                          YeaCount(votes_by_config_hash'[h])
                             = YeaCount(votes_by_config_hash[h])
          /\ (configs' /= configs) =>
                /\ result'.cfg_hash \in Proposed
                /\ configs' = Append(configs, ProposedConfig(result'.cfg_hash))]_vars

\* A proposal scheduled at three of four votes: a later vote in favour by the
\* fourth validator has been turned away and the count is still three.
C28_Witness ==
    /\ result.tx = "Vote"
    /\ result.kind \in ServiceErrors
    /\ WasScheduled(result.cfg_hash)
    /\ Len(votes_by_config_hash[result.cfg_hash]) = 4
    /\ ThresholdOf(PredecessorOf(result.cfg_hash)) = 3
    /\ YeaCount(votes_by_config_hash[result.cfg_hash]) = 3
    /\ SenderSlotEmpty(result.author, result.cfg_hash)

(* ---- C29 ---- *)
\* Two distinct stored proposals that name the same predecessor.
Siblings(h, g) ==
    /\ h \in Proposed
    /\ g \in Proposed
    /\ h /= g
    /\ ProposedConfig(h).previous_cfg_hash = ProposedConfig(g).previous_cfg_hash

\* C29: of the proposals that name the same predecessor configuration at most
\* one is ever committed to the registry, however many of them are open and
\* collecting votes at the same time; the registry never holds two
\* configurations with the same predecessor.
C29_OneSuccessorPerPredecessor ==
    /\ \A h, g \in Proposed : Siblings(h, g) => ~(WasScheduled(h) /\ WasScheduled(g))
    /\ \A i, j \in 1..Len(configs) :
          i /= j => configs[i].previous_cfg_hash /= configs[j].previous_cfg_hash

\* Two proposals with the same predecessor have both collected votes; one of
\* them has been scheduled, the other has not.
C29_Witness ==
    \E h, g \in Proposed :
        /\ Siblings(h, g)
        /\ NonEmptySlots(votes_by_config_hash[h]) /= {}
        /\ NonEmptySlots(votes_by_config_hash[g]) /= {}
        /\ WasScheduled(h)
        /\ ~WasScheduled(g)

(* ---- C30 ---- *)
\* C30: whenever a scheduled (following) configuration exists, the predecessor
\* hash it declares is the hash of the active configuration, from the step
\* that schedules it until it comes into force.
C30_FollowingExtendsActive ==
    /\ [](IsSome(following_configuration) =>
            Unwrap(following_configuration).previous_cfg_hash
               = CryptoHash(actual_configuration))
    /\ [][(configs' /= configs) =>
            /\ configs'[Len(configs')].previous_cfg_hash
                  = CryptoHash(actual_configuration)
            /\ actual_configuration' = actual_configuration]_vars

\* A second-generation configuration is pending: its predecessor is an active
\* configuration that was itself voted in.
C30_Witness ==
    /\ IsSome(following_configuration)
    /\ Len(configs) = 3
    /\ actual_configuration = configs[2]
    /\ Unwrap(following_configuration) = configs[3]
    /\ configs[3].previous_cfg_hash = CryptoHash(configs[2])
    /\ configs[3].previous_cfg_hash /= CryptoHash(configs[1])

(* ---- C31 ---- *)
\* C31: a successful Vote or VoteAgainst on a proposal leaves unchanged the
\* ledger and the record of every other proposal, every slot of the proposal
\* other than the sender's, the proposal's stored payload and validator count,
\* and the ordinal index; a successful Propose leaves the ledger and the record
\* of every proposal that was already stored unchanged.
C31_FrameOfSuccessfulTransactions ==
    [][/\ (IsVoting(result') /\ result'.kind = "Ok") =>
             LET h == result'.cfg_hash
                 slot == position(actual_configuration.validator_keys,
                                  result'.author)[1] + 1
             IN  /\ DOMAIN votes_by_config_hash' = DOMAIN votes_by_config_hash
                 /\ DOMAIN propose_data_by_config_hash' = Proposed
                 /\ \A g \in Proposed \ {h} :
                       /\ votes_by_config_hash'[g] = votes_by_config_hash[g]
                       /\ propose_data_by_config_hash'[g] = propose_data_by_config_hash[g]
                 /\ Len(votes_by_config_hash'[h]) = Len(votes_by_config_hash[h])
                 /\ \A i \in 1..Len(votes_by_config_hash[h]) :
                       i /= slot => votes_by_config_hash'[h][i] = votes_by_config_hash[h][i]
                 /\ votes_by_config_hash'[h][slot] /= votes_by_config_hash[h][slot]
                 /\ propose_data_by_config_hash'[h].tx_propose
                       = propose_data_by_config_hash[h].tx_propose
                 /\ propose_data_by_config_hash'[h].num_validators
                       = propose_data_by_config_hash[h].num_validators
                 /\ config_hash_by_ordinal' = config_hash_by_ordinal
       /\ (result'.tx = "Propose" /\ result'.kind = "Ok") =>
             \A g \in Proposed :
                 /\ g \in DOMAIN propose_data_by_config_hash'
                 /\ votes_by_config_hash'[g] = votes_by_config_hash[g]
                 /\ propose_data_by_config_hash'[g] = propose_data_by_config_hash[g]]_vars

\* A vote has just been accepted on a four-slot ledger that already held
\* another validator's decision, while a second proposal with a recorded vote
\* is in the store.
C31_Witness ==
    /\ IsVoting(result)
    /\ result.kind = "Ok"
    /\ Len(votes_by_config_hash[result.cfg_hash]) = 4
    /\ Cardinality(NonEmptySlots(votes_by_config_hash[result.cfg_hash])) >= 2
    /\ \E g \in Proposed \ {result.cfg_hash} :
          NonEmptySlots(votes_by_config_hash[g]) /= {}

====
